---------------------------- MODULE Spec2Model ----------------------------
(***************************************************************************)
(* Lead bot (src/bot.py): extraction of leads from chat messages, delivery *)
(* of each lead to a Google Sheets tab with bounded retries, the local     *)
(* backup files for leads that exhausted their retries, and the restore    *)
(* pass that replays the backup files.                                     *)
(*                                                                         *)
(* Scheduling.  All handlers are coroutines of one asyncio event loop and  *)
(* the Application is built without concurrent_updates (bot.py:820), so    *)
(* it awaits one handler to completion before it dispatches the next       *)
(* update: handlers are serialised, and pc = "idle" guards every handler   *)
(* entry.  Inside a handler the steps are the ledger API calls, whose      *)
(* outcome is the environment's choice, and the backoff sleeps.            *)
(*                                                                         *)
(* Abstractions.  A text is a sequence of tokens (an @handle, a URL with   *)
(* the amocrm marker, another URL, a plain word). A timestamp is its       *)
(* calendar day. Rows carry the history tag lead = <<message number,       *)
(* position in the message>>, which the code does not store. The local     *)
(* file system is reliable and os.rename has POSIX semantics (the bot is   *)
(* deployed on Render): it silently replaces an existing destination.      *)
(*                                                                         *)
(* Specifications.  Spec is the bot at work: messages and /restore.        *)
(* SpecReport adds /stats, SpecCorrupt adds backup files damaged between   *)
(* handlers, SpecMain begins at the main block of the process, SpecExtract *)
(* applies _extract_all_leads_info to every short text. SpecAck is the     *)
(* acknowledgement tracker of the design document; bot.py has none, and    *)
(* the variable ack never changes in the other specifications.  SpecDebug  *)
(* adds /debug to SpecReport.  SpecRun is run() with its restart loop, the *)
(* /shutdown endpoint and the keep-alive threads; SpecKeepAlive is the     *)
(* KeepAliveService alone, started and stopped freely by its owner.  The   *)
(* handlers run inside run_polling; proc and ka never change where the     *)
(* handlers are explored, nor the ledger where run() is.                   *)
(***************************************************************************)
EXTENDS Naturals, Sequences, FiniteSets, TLC

\* ---------------------------------------------------------------- bounds
MaxMessages == 2
MaxLeads == 2
MaxDay == 2
MaxLen == 3
MaxCorrupt == 1
MaxChats == 2
MaxSessions == 2

\* ------------------------------------------------------ program constants
DefaultMaxRetries == 3
RestoreMaxRetries == 1

NotificationsBot == "billzsalesnotificationsbot"
DefaultTab == "All"

\* A part of LeadBot.user_tabs (bot.py:288-309); tab names transliterated.
user_tabs ==
    [ u \in {"bob_7007", "utkirraimov", "ravshan_billz"} |->
        CASE u = "bob_7007" -> "Jizzakh"
          [] u = "utkirraimov" -> "Jizzakh"
          [] OTHER -> "All" ]

Tabs == {user_tabs[u] : u \in DOMAIN user_tabs} \cup {DefaultTab}

Days == 1..MaxDay

\* ------------------------------------------------------------------ texts
At(name) == [kind |-> "at", val |-> name]
AmoUrl(u) == [kind |-> "amo_url", val |-> u]
OtherUrl(u) == [kind |-> "url", val |-> u]
Word(w) == [kind |-> "word", val |-> w]

Link1 == "https://billz.amocrm.ru/leads/detail/42"
Link2 == "https://billz.amocrm.ru/leads/detail/43"

\* The message texts the transport delivers in this model.
Texts ==
    { << >>,
      << Word("no"), Word("mentions"), Word("here") >>,
      << AmoUrl(Link1) >>,
      << At("bob_7007"), OtherUrl("https://example.com/x") >>,
      << At("Bob_7007"), Word("please"), AmoUrl(Link1) >>,
      << AmoUrl(Link1), At("bob_7007"), At("utkirraimov") >>,
      << At("stranger"), At("Bob_7007"), AmoUrl(Link2), AmoUrl(Link1) >> }

Senders == {"manager", NotificationsBot}

\* Every text of at most MaxLen tokens over the tokens of this model.
Tokens ==
    { At("bob_7007"), At("Bob_7007"), At("stranger"), AmoUrl(Link1),
      AmoUrl(Link2), OtherUrl("https://example.com/x"), Word("please") }

BoundedTexts == UNION {[1..n -> Tokens] : n \in 0..MaxLen}

\* str.lower() on the handles of this model.
MutLowerIdentity(name) == name

Lower(name) ==
    CASE name = "Bob_7007" -> "bob_7007"
      [] OTHER -> name

\* re.search(link_pattern, text): the first marker URL of the text, if any.
MutLinkMatchesAnyUrl(text) ==
    SelectSeq(text, LAMBDA t : t.kind \in {"amo_url", "url"})

LinkMatches(text) == SelectSeq(text, LAMBDA t : t.kind = "amo_url")

\* re.findall(username_pattern, text): every @handle, in text order.
UsernameMatches(text) == SelectSeq(text, LAMBDA t : t.kind = "at")

\* LeadBot._extract_all_leads_info: a sequence of <<username_lower, amo_link>>.
MutExtractNoHandleGuard(text) ==
    LET links == LinkMatches(text)
        names == UsernameMatches(text)
    IN  IF links = << >> THEN << >>
        ELSE IF names = << >> THEN << << "", links[1].val >> >>
        ELSE [k \in 1..Len(names) |-> << Lower(names[k].val), links[1].val >>]

ExtractAllLeadsInfo(text) ==
    LET links == LinkMatches(text)
        names == UsernameMatches(text)
    IN  IF links = << >> THEN << >>
        ELSE IF names = << >> THEN << >>
        ELSE [k \in 1..Len(names) |-> << Lower(names[k].val), links[1].val >>]

\* self.user_tabs.get(username, "All")
TabFor(username) ==
    IF username \in DOMAIN user_tabs THEN user_tabs[username] ELSE DefaultTab

\* ------------------------------------------------------------------- rows
\* The header row append_lead writes into a tab it creates.
HeaderRow ==
    [kind |-> "header", date |-> 0, text |-> << >>, link |-> "AmoCRM link",
     user |-> "User", sender |-> "Sender", lead |-> <<0, 0>>]

\* lead_data of handle_message: timestamp, text, link, username, sender.
LeadData(day, text, link, username, sender, tag) ==
    [kind |-> "lead", date |-> day, text |-> text, link |-> link,
     user |-> username, sender |-> sender, lead |-> tag]

NoTab == [exists |-> FALSE, rows |-> << >>]
\* A backup file: absent, or holding a JSON list of entries, or holding text
\* that json.load rejects (corrupt).
NoFile == [exists |-> FALSE, corrupt |-> FALSE, data |-> << >>]

CorruptFile == [exists |-> TRUE, corrupt |-> TRUE, data |-> << >>]

\* The step of append_lead at which the ledger API raises, if any.
Faults == {"none", "lookup", "create", "header", "row"}

\* worksheet.append_row(values)
MutAppendRowFront(rows, row) == << row >> \o rows

AppendRow(rows, row) == Append(rows, row)

\* The tab found or created by append_lead before the data row is appended.
OpenedTab(tab) ==
    IF tab.exists THEN tab
    ELSE [exists |-> TRUE, rows |-> AppendRow(<< >>, HeaderRow)]

\* GoogleSheetsManager.append_lead: the tab after the call and the result.
AppendLead(tab, data, fault) ==
    IF fault = "lookup" THEN [tab |-> tab, ok |-> FALSE]
    ELSE IF ~tab.exists /\ fault = "create" THEN [tab |-> tab, ok |-> FALSE]
    ELSE IF ~tab.exists /\ fault = "header"
        THEN [tab |-> [exists |-> TRUE, rows |-> << >>], ok |-> FALSE]
    ELSE IF fault = "row" THEN [tab |-> OpenedTab(tab), ok |-> FALSE]
    ELSE [tab |-> [exists |-> TRUE,
                   rows |-> AppendRow(OpenedTab(tab).rows, data)],
          ok |-> TRUE]

\* The number of data rows in the tabs `tabs` of the spreadsheet.
RECURSIVE LeadRowCount(_, _)
LeadRowCount(book, tabs) ==
    IF tabs = {} THEN 0
    ELSE LET t == CHOOSE x \in tabs : TRUE
         IN  Cardinality({n \in 1..Len(book[t].rows) : book[t].rows[n].kind = "lead"})
                 + LeadRowCount(book, tabs \ {t})

\* set(self.user_tabs.values()): the tabs the reporting commands go through.
UniqueTabs == {user_tabs[u] : u \in DOMAIN user_tabs}

\* Whether a read of the ledger API raises.
ReadFaults == {"none", "error"}

\* The rows count_leads_for_date scans: row 1 is left out as the header
\* whenever the tab has more than one row.
DataRows(all_values) ==
    IF Len(all_values) > 1 THEN Tail(all_values) ELSE all_values

\* GoogleSheetsManager.count_leads_for_date: the tab after the call and the
\* count; a missing tab and any exception give 0.
MutCountCreatesTab(tab, date, fault) ==
    IF fault = "error" THEN [tab |-> tab, count |-> 0]
    ELSE IF ~tab.exists THEN [tab |-> OpenedTab(tab), count |-> 0]
    ELSE [tab |-> tab,
          count |-> Cardinality({k \in 1..Len(DataRows(tab.rows)) :
                                    DataRows(tab.rows)[k].date = date})]

CountLeadsForDate(tab, date, fault) ==
    IF fault = "error" THEN [tab |-> tab, count |-> 0]
    ELSE IF ~tab.exists THEN [tab |-> tab, count |-> 0]
    ELSE [tab |-> tab,
          count |-> Cardinality({k \in 1..Len(DataRows(tab.rows)) :
                                    DataRows(tab.rows)[k].date = date})]

\* total_leads of get_daily_stats_command: the sum of the counts above 0.
RECURSIVE TotalLeads(_, _)
TotalLeads(counts, tabs) ==
    IF tabs = {} THEN 0
    ELSE LET t == CHOOSE x \in tabs : TRUE
         IN  (IF counts[t] > 0 THEN counts[t] ELSE 0) + TotalLeads(counts, tabs \ {t})

\* ----------------------------------------------------------- retry policy
\* asyncio.sleep(2 ** attempt)
Backoff(attempt) == 2 ^ attempt

\* if attempt < max_retries - 1: sleep and go round the loop again.
MutMoreAttempts(attempt, max_retries) == attempt < max_retries

MoreAttempts(attempt, max_retries) == attempt < max_retries - 1

\* ----------------------------------------------------------- backup files
BackupEntry(day, worksheet_name, data) ==
    [timestamp |-> day, worksheet |-> worksheet_name, data |-> data]

\* json.load(f) of a backup file raises on a corrupt file.
JsonLoads(file) == file.exists /\ ~file.corrupt

\* _save_to_backup: the content written back to today's file; a missing file
\* and a JSONDecodeError both start from the empty list.
MutSavedDataOverwrite(file, entry) == << entry >>

MutSavedDataPrepend(file, entry) ==
    << entry >> \o (IF JsonLoads(file) THEN file.data ELSE << >>)

SavedData(file, entry) ==
    Append(IF JsonLoads(file) THEN file.data ELSE << >>, entry)

MutSaveToBackupNotWritten(files, day, worksheet_name, data) == files

SaveToBackup(files, day, worksheet_name, data) ==
    [files EXCEPT ![day] =
        [exists |-> TRUE, corrupt |-> FALSE,
         data |-> SavedData(files[day], BackupEntry(day, worksheet_name, data))]]

\* glob.glob("failed_leads_*.json")
BackupFiles(files) == {d \in Days : files[d].exists}

RECURSIVE SumLen(_, _)
SumLen(files, ds) ==
    IF ds = {} THEN 0
    ELSE LET d == CHOOSE x \in ds : TRUE
         IN  (IF JsonLoads(files[d]) THEN Len(files[d].data) ELSE 0)
                 + SumLen(files, ds \ {d})

\* The entries of one file, and of every unprocessed backup file.
Entries(file) ==
    IF JsonLoads(file) THEN {file.data[k] : k \in 1..Len(file.data)} ELSE {}

Held(files) == UNION {Entries(files[d]) : d \in BackupFiles(files)}

\* LeadStatsManager._count_backup_leads
CountBackupLeads(files) == SumLen(files, BackupFiles(files))

\* if restored_count > 0: os.rename(backup_file, "processed_" + backup_file)
MutShouldRenameNever(restored_count) == FALSE

ShouldRename(restored_count) == restored_count > 0

\* The next lead of the message to deliver after lead i ended with `ok`.
MutNextLeadStopOnFailure(i, n, ok) == IF ok THEN i + 1 ELSE n + 1

NextLead(i, n, ok) == i + 1

\* ------------------------------------------------------------------ state
VARIABLES
    today,      \* the calendar day datetime.now() reports
    sheets,     \* the spreadsheet: tab name -> [exists, rows]
    backup,     \* failed_leads_<day>.json: day -> [exists, data]
    processed,  \* processed_failed_leads_<day>.json: day -> [exists, data]
    pc,         \* where the running handler stands; "idle" when none runs
    msgNo,      \* number of updates handle_message has been called with
    leadNo,     \* number of leads extracted from them
    hm,         \* the frame of handle_message
    rs,         \* the frame of restore_failed_leads
    ack,        \* the acknowledgement sessions and their reminder tasks
    proc,       \* run(): its position, retry_count and the two module globals
    ka,         \* KeepAliveService: its fields, timers and ping_self threads
    hist        \* history of the run, read by the properties only

vars ==
    << today, sheets, backup, processed, pc, msgNo, leadNo, hm, rs, ack, proc, ka,
       hist >>

\* History record of one call of _add_lead_with_retry: the results of its
\* attempts, the sleeps between them, what it returned, and the backup
\* count when the lead's iteration began.
NoCall ==
    [max_retries |-> 0, outcomes |-> << >>, delays |-> << >>, result |-> "none",
     countBefore |-> 0]

NewCall(max_retries, count) ==
    [max_retries |-> max_retries, outcomes |-> << >>, delays |-> << >>,
     result |-> "running", countBefore |-> count]

\* The frames of the two handlers while they do not run.
NoMessage ==
    [message_text |-> << >>, sender |-> "", leads_info |-> << >>, i |-> 0,
     lead_data |-> HeaderRow, attempt |-> 0, processed_count |-> 0]

NoRestore ==
    [backup_files |-> {}, backup_file |-> 0, failed_leads |-> << >>, j |-> 0,
     restored_count |-> 0, total_restored |-> 0, total_failed |-> 0]

\* No acknowledgement session and no reminder task. `confirmed` and `late`
\* are history: the sessions a confirmation removed, and those among them a
\* reminder was sent for afterwards.
NoAck ==
    [sessions |-> {}, tasks |-> {}, next_id |-> 1, confirmed |-> {}, late |-> {}]

\* run() has not been entered: INSTANCE_RUNNING is False and SHUTDOWN_EVENT
\* is clear, as the module sets them.
NoProc ==
    [pc |-> "run_entry", retry_count |-> 0, shutdown_event |-> FALSE,
     instance_running |-> FALSE, attempts |-> 0, failed |-> 0]

\* KeepAliveService.__init__: not running, no timer. `timers` are the Timer
\* objects that are pending, `threads` the calls of ping_self under way;
\* `made` counts the timers created, `stopped` and `late` are history.
NoKeepAlive ==
    [running |-> FALSE, timer |-> 0, timers |-> {}, threads |-> {}, caller |-> "idle",
     made |-> 0, stopped |-> FALSE, late |-> FALSE]

\* The conditions the process started under, when the run does not begin with
\* the start of the process.
NoStart == [config |-> "none", ledger |-> "none"]

\* No reply has been sent to the chat.
NoReply == [kind |-> "none"]

Init ==
    /\ today = 1
    /\ sheets = [t \in Tabs |-> NoTab]
    /\ backup = [d \in Days |-> NoFile]
    /\ processed = [d \in Days |-> NoFile]
    /\ pc = "idle"
    /\ msgNo = 0
    /\ leadNo = 0
    /\ hm = NoMessage
    /\ rs = NoRestore
    /\ ack = NoAck
    /\ proc = NoProc
    /\ ka = NoKeepAlive
    /\ hist = [call |-> NoCall, attempted |-> {}, saved |-> {}, drained |-> {},
               passStart |-> {}, passFailed |-> {}, passCount |-> 0,
               passCorrupt |-> {}, passRows |-> 0, botLead |-> FALSE, reply |-> NoReply,
               start |-> NoStart]

\* The clock passes midnight. The day is read when a lead's iteration begins
\* and when a backup entry is written; a day that changes while the loop is
\* idle or a handler sleeps reaches every combination of the two readings.
NextDay ==
    /\ pc \in {"idle", "hm_sleep"}
    /\ today < MaxDay
    /\ today' = today + 1
    /\ UNCHANGED << sheets, backup, processed, pc, msgNo, leadNo, hm, rs, hist, ack,
                    proc, ka >>

\* The frame at the top of the body of `for username, amo_link in leads_info`.
LeadFrame(frame, k, no, day) ==
    [frame EXCEPT
        !.i = k,
        !.attempt = 0,
        !.lead_data = LeadData(day, frame.message_text, frame.leads_info[k][2],
                               frame.leads_info[k][1], frame.sender, <<no, k>>)]

\* worksheet_name = self.user_tabs.get(username, "All") of the frame's lead.
WorksheetName(frame) == TabFor(frame.lead_data.user)

\* Whether a message is one sent by the notifications bot with a text that
\* holds a lead (history: the last update handled was such a message).
BotLead(text, sender) ==
    sender = NotificationsBot /\ text # << >> /\ ExtractAllLeadsInfo(text) # << >>

\* handle_message without the test of the sender's username.
MutHandleMessageAnySender(text, sender) ==
    /\ pc = "idle"
    /\ msgNo < MaxMessages
    /\ msgNo' = msgNo + 1
    /\ LET leads == IF text = << >>
                    THEN << >> ELSE ExtractAllLeadsInfo(text)
           frame == [NoMessage EXCEPT !.message_text = text, !.sender = sender,
                                      !.leads_info = leads]
       IN  /\ leadNo + Len(leads) <= MaxLeads
           /\ leadNo' = leadNo + Len(leads)
           /\ IF leads = << >>
              THEN /\ hm' = NoMessage
                   /\ pc' = "idle"
                   /\ hist' = [hist EXCEPT !.botLead = BotLead(text, sender)]
              ELSE /\ hm' = LeadFrame(frame, 1, msgNo + 1, today)
                   /\ pc' = "hm_try"
                   /\ hist' = [hist EXCEPT
                          !.botLead = BotLead(text, sender),
                          !.attempted = {},
                          !.call = NewCall(DefaultMaxRetries,
                                           CountBackupLeads(backup))]
    /\ UNCHANGED << today, sheets, backup, processed, rs, ack, proc, ka >>

\* handle_message up to its first ledger call (bot.py:432-490); a message
\* without leads returns at once.
HandleMessage(text, sender) ==
    /\ pc = "idle"
    /\ msgNo < MaxMessages
    /\ msgNo' = msgNo + 1
    /\ LET leads == IF sender = NotificationsBot \/ text = << >>
                    THEN << >> ELSE ExtractAllLeadsInfo(text)
           frame == [NoMessage EXCEPT !.message_text = text, !.sender = sender,
                                      !.leads_info = leads]
       IN  /\ leadNo + Len(leads) <= MaxLeads
           /\ leadNo' = leadNo + Len(leads)
           /\ IF leads = << >>
              THEN /\ hm' = NoMessage
                   /\ pc' = "idle"
                   /\ hist' = [hist EXCEPT !.botLead = BotLead(text, sender)]
              ELSE /\ hm' = LeadFrame(frame, 1, msgNo + 1, today)
                   /\ pc' = "hm_try"
                   /\ hist' = [hist EXCEPT
                          !.botLead = BotLead(text, sender),
                          !.attempted = {},
                          !.call = NewCall(DefaultMaxRetries,
                                           CountBackupLeads(backup))]
    /\ UNCHANGED << today, sheets, backup, processed, rs, ack, proc, ka >>

\* One pass of the loop of _add_lead_with_retry called by handle_message:
\* the append succeeds and the call returns True, or it fails and the call
\* sleeps before the next pass, or returns False (bot.py:384-400).
MutTryAppendNoEarlyReturn(fault) ==
    /\ pc = "hm_try"
    /\ LET ws == WorksheetName(hm)
           res == AppendLead(sheets[ws], hm.lead_data, fault)
           again == MoreAttempts(hm.attempt, DefaultMaxRetries)
           c1 == [hist.call EXCEPT !.outcomes = Append(@, res.ok)]
       IN  /\ sheets' = [sheets EXCEPT ![ws] = res.tab]
           /\ pc' = IF again THEN "hm_sleep" ELSE "hm_returned"
           /\ hist' = [hist EXCEPT
                  !.attempted = @ \cup {hm.i},
                  !.call = IF again
                           THEN [c1 EXCEPT !.delays = Append(@, Backoff(hm.attempt))]
                           ELSE [c1 EXCEPT !.result =
                                    IF res.ok THEN "True" ELSE "False"]]
    /\ UNCHANGED << today, backup, processed, msgNo, leadNo, hm, rs, ack, proc, ka >>

TryAppend(fault) ==
    /\ pc = "hm_try"
    /\ LET ws == WorksheetName(hm)
           res == AppendLead(sheets[ws], hm.lead_data, fault)
           again == ~res.ok /\ MoreAttempts(hm.attempt, DefaultMaxRetries)
           c1 == [hist.call EXCEPT !.outcomes = Append(@, res.ok)]
       IN  /\ sheets' = [sheets EXCEPT ![ws] = res.tab]
           /\ pc' = IF again THEN "hm_sleep" ELSE "hm_returned"
           /\ hist' = [hist EXCEPT
                  !.attempted = @ \cup {hm.i},
                  !.call = IF again
                           THEN [c1 EXCEPT !.delays = Append(@, Backoff(hm.attempt))]
                           ELSE [c1 EXCEPT !.result =
                                    IF res.ok THEN "True" ELSE "False"]]
    /\ UNCHANGED << today, backup, processed, msgNo, leadNo, hm, rs, ack, proc, ka >>

\* asyncio.sleep returns: the next pass of the retry loop (bot.py:386).
WakeUp ==
    /\ pc = "hm_sleep"
    /\ pc' = "hm_try"
    /\ hm' = [hm EXCEPT !.attempt = @ + 1]
    /\ UNCHANGED << today, sheets, backup, processed, msgNo, leadNo, rs, hist, ack, proc, ka >>

\* The rest of the lead's iteration after _add_lead_with_retry returned: the
\* lead is counted, or saved to today's backup file; then the next lead's
\* iteration begins or the loop ends (bot.py:495-506).
AfterRetry ==
    /\ pc = "hm_returned"
    /\ LET ok == hist.call.result = "True"
           ws == WorksheetName(hm)
           n == Len(hm.leads_info)
           nxt == NextLead(hm.i, n, ok)
           done == [hm EXCEPT !.processed_count = IF ok THEN @ + 1 ELSE @]
       IN  /\ backup' = IF ok THEN backup
                        ELSE SaveToBackup(backup, today, ws, hm.lead_data)
           /\ IF nxt <= n
              THEN /\ pc' = "hm_try"
                   /\ hm' = LeadFrame(done, nxt, msgNo, today)
                   /\ hist' = [hist EXCEPT
                          !.saved = IF ok THEN @
                                    ELSE @ \cup {BackupEntry(today, ws, hm.lead_data)},
                          !.call = NewCall(DefaultMaxRetries, CountBackupLeads(backup'))]
              ELSE /\ pc' = "hm_exit"
                   /\ hm' = done
                   /\ hist' = [hist EXCEPT
                          !.saved = IF ok THEN @
                                    ELSE @ \cup {BackupEntry(today, ws, hm.lead_data)},
                          !.call = NoCall]
    /\ UNCHANGED << today, sheets, processed, msgNo, leadNo, rs, ack, proc, ka >>

\* handle_message returns to the Application (bot.py:506).
ReturnFromMessage ==
    /\ pc = "hm_exit"
    /\ pc' = "idle"
    /\ hm' = NoMessage
    /\ hist' = [hist EXCEPT !.attempted = {}]
    /\ UNCHANGED << today, sheets, backup, processed, msgNo, leadNo, rs, ack, proc, ka >>

\* /restore: restore_failed_leads up to its first file (bot.py:603-610).
RestoreFailedLeads ==
    /\ pc = "idle"
    /\ pc' = "rs_open"
    /\ rs' = [NoRestore EXCEPT !.backup_files = BackupFiles(backup)]
    /\ hist' = [hist EXCEPT !.passStart = Held(backup), !.passFailed = {},
                             !.passCount = CountBackupLeads(backup),
                             !.passCorrupt = {d \in Days : backup[d].corrupt},
                             !.passRows = LeadRowCount(sheets, Tabs),
                             !.botLead = FALSE]
    /\ UNCHANGED << today, sheets, backup, processed, msgNo, leadNo, hm, ack, proc, ka >>

\* The next file of the glob result is read; when json.load raises, the
\* exception is caught inside the loop.
MutRestoreOpenAbort(d) ==
    /\ pc = "rs_open"
    /\ d \in rs.backup_files
    /\ IF JsonLoads(backup[d])
       THEN /\ rs' = [rs EXCEPT !.backup_files = @ \ {d}, !.backup_file = d,
                                !.failed_leads = backup[d].data, !.j = 1,
                                !.restored_count = 0]
            /\ pc' = "rs_try"
       ELSE /\ rs' = [rs EXCEPT !.backup_files = {}]
            /\ pc' = "rs_open"
    /\ UNCHANGED << today, sheets, backup, processed, msgNo, leadNo, hm, hist, ack, proc, ka >>

\* The next file of the glob result is read; when json.load raises, the
\* except clause of the file's iteration logs and the loop goes on to the
\* next file (bot.py:610-615, 633-634).
RestoreOpen(d) ==
    /\ pc = "rs_open"
    /\ d \in rs.backup_files
    /\ IF JsonLoads(backup[d])
       THEN /\ rs' = [rs EXCEPT !.backup_files = @ \ {d}, !.backup_file = d,
                                !.failed_leads = backup[d].data, !.j = 1,
                                !.restored_count = 0]
            /\ pc' = "rs_try"
       ELSE /\ rs' = [rs EXCEPT !.backup_files = @ \ {d}]
            /\ pc' = "rs_open"
    /\ UNCHANGED << today, sheets, backup, processed, msgNo, leadNo, hm, hist, ack, proc, ka >>

\* One entry of the file is replayed with max_retries=1: the call is a single
\* pass of the retry loop, without a sleep. After the last entry the file is
\* renamed when anything of it was restored (bot.py:616-634).
MutRestoreTryStopsOnFailure(fault) ==
    /\ pc = "rs_try"
    /\ ~MoreAttempts(0, RestoreMaxRetries)
    /\ LET lead == rs.failed_leads[rs.j]
           d == rs.backup_file
           res == AppendLead(sheets[lead.worksheet], lead.data, fault)
           counted == [rs EXCEPT
                         !.restored_count = IF res.ok THEN @ + 1 ELSE @,
                         !.total_restored = IF res.ok THEN @ + 1 ELSE @,
                         !.total_failed = IF res.ok THEN @ ELSE @ + 1]
           h1 == [hist EXCEPT !.passFailed = IF res.ok THEN @ ELSE @ \cup {lead}]
           rename == ShouldRename(counted.restored_count)
       IN  /\ sheets' = [sheets EXCEPT ![lead.worksheet] = res.tab]
           /\ IF rs.j < Len(rs.failed_leads) /\ res.ok
              THEN /\ pc' = "rs_try"
                   /\ rs' = [counted EXCEPT !.j = @ + 1]
                   /\ hist' = h1
                   /\ UNCHANGED << backup, processed >>
              ELSE /\ pc' = "rs_open"
                   /\ rs' = counted
                   /\ backup' = IF rename THEN [backup EXCEPT ![d] = NoFile]
                                ELSE backup
                   /\ processed' = IF rename
                                   THEN [processed EXCEPT ![d] = backup[d]]
                                   ELSE processed
                   /\ hist' = [h1 EXCEPT !.drained =
                                  IF rename THEN @ \cup Entries(backup[d]) ELSE @]
    /\ UNCHANGED << today, msgNo, leadNo, hm, ack, proc, ka >>

RestoreTry(fault) ==
    /\ pc = "rs_try"
    /\ ~MoreAttempts(0, RestoreMaxRetries)
    /\ LET lead == rs.failed_leads[rs.j]
           d == rs.backup_file
           res == AppendLead(sheets[lead.worksheet], lead.data, fault)
           counted == [rs EXCEPT
                         !.restored_count = IF res.ok THEN @ + 1 ELSE @,
                         !.total_restored = IF res.ok THEN @ + 1 ELSE @,
                         !.total_failed = IF res.ok THEN @ ELSE @ + 1]
           h1 == [hist EXCEPT !.passFailed = IF res.ok THEN @ ELSE @ \cup {lead}]
           rename == ShouldRename(counted.restored_count)
       IN  /\ sheets' = [sheets EXCEPT ![lead.worksheet] = res.tab]
           /\ IF rs.j < Len(rs.failed_leads)
              THEN /\ pc' = "rs_try"
                   /\ rs' = [counted EXCEPT !.j = @ + 1]
                   /\ hist' = h1
                   /\ UNCHANGED << backup, processed >>
              ELSE /\ pc' = "rs_open"
                   /\ rs' = counted
                   /\ backup' = IF rename THEN [backup EXCEPT ![d] = NoFile]
                                ELSE backup
                   /\ processed' = IF rename
                                   THEN [processed EXCEPT ![d] = backup[d]]
                                   ELSE processed
                   /\ hist' = [h1 EXCEPT !.drained =
                                  IF rename THEN @ \cup Entries(backup[d]) ELSE @]
    /\ UNCHANGED << today, msgNo, leadNo, hm, ack, proc, ka >>

\* The reply restore_failed_leads_command sends for the two numbers
\* restore_failed_leads returned.
RestoreReply(restored, failed) ==
    IF restored > 0
    THEN [kind |-> "restored", restored |-> restored, failed |-> failed]
    ELSE [kind |-> "nothing"]

\* No file is left: restore_failed_leads returns total_restored,
\* total_failed (bot.py:636).
ReturnFromRestore ==
    /\ pc = "rs_open"
    /\ rs.backup_files = {}
    /\ pc' = "rc_reply"
    /\ rs' = NoRestore
    /\ hist' = [hist EXCEPT !.reply = RestoreReply(rs.total_restored, rs.total_failed)]
    /\ UNCHANGED << today, sheets, backup, processed, msgNo, leadNo, hm, ack, proc, ka >>

\* restore_failed_leads_command: its last reply_text has returned and the
\* handler returns.
ReturnFromRestoreCommand ==
    /\ pc = "rc_reply"
    /\ pc' = "idle"
    /\ hist' = [hist EXCEPT !.passStart = {}, !.passFailed = {}, !.passCount = 0,
                             !.passCorrupt = {}, !.passRows = 0, !.reply = NoReply]
    /\ UNCHANGED << today, sheets, backup, processed, msgNo, leadNo, hm, rs, ack, proc, ka >>

Next ==
    \/ NextDay
    \/ \E text \in Texts, sender \in Senders : HandleMessage(text, sender)
    \/ \E fault \in Faults : TryAppend(fault)
    \/ WakeUp
    \/ AfterRetry
    \/ ReturnFromMessage
    \/ RestoreFailedLeads
    \/ \E d \in Days : RestoreOpen(d)
    \/ \E fault \in Faults : RestoreTry(fault)
    \/ ReturnFromRestore
    \/ ReturnFromRestoreCommand

Spec == Init /\ [][Next]_vars

\* ------------------------------------------------- acknowledgement tracker
\* The tracker of delivered leads: a session per delivery, keyed by chat and
\* delivery, with one reminder task that sleeps before each stage. Stages 1
\* to LastReminder send a reminder, the stage after them expires the session.
\* A confirmation in a chat clears every session of that chat.
AckChats == 1..MaxChats

LastReminder == 3

AckState(reminders) ==
    CASE reminders = 0 -> "pending"
      [] reminders = 1 -> "reminded_1"
      [] reminders = 2 -> "reminded_2"
      [] OTHER -> "reminded_3"

\* A lead was delivered in chat c and the reply was sent: a session is
\* created and its reminder task starts to sleep.
AckSessionCreated(c) ==
    /\ ack.next_id <= MaxSessions
    /\ ack' = [ack EXCEPT
           !.sessions = @ \cup {[id |-> ack.next_id, chat |-> c, state |-> AckState(0)]},
           !.tasks = @ \cup {[id |-> ack.next_id, chat |-> c, stage |-> 1]},
           !.next_id = @ + 1]
    /\ UNCHANGED << today, sheets, backup, processed, pc, msgNo, leadNo, hm, rs, hist,
                    proc, ka >>

\* The delay of a task has elapsed. The task checks that its session is
\* still there before it sends; it sends the reminder of its stage and sleeps
\* again, or, past the last reminder, expires the session and ends.
AckTimerFires(task) ==
    /\ task \in ack.tasks
    /\ LET live == {x \in ack.sessions : x.id = task.id}
       IN  IF live = {} THEN ack' = [ack EXCEPT !.tasks = @ \ {task}]
           ELSE IF task.stage <= LastReminder
           THEN ack' = [ack EXCEPT
                    !.sessions = (@ \ live) \cup
                        {[id |-> task.id, chat |-> task.chat,
                          state |-> AckState(task.stage)]},
                    !.tasks = (@ \ {task}) \cup
                        {[task EXCEPT !.stage = @ + 1]},
                    !.late = IF task.id \in ack.confirmed
                             THEN @ \cup {task.id} ELSE @]
           ELSE ack' = [ack EXCEPT !.sessions = @ \ live, !.tasks = @ \ {task}]
    /\ UNCHANGED << today, sheets, backup, processed, pc, msgNo, leadNo, hm, rs, hist,
                    proc, ka >>

\* A message of chat c is one of the acknowledgement phrases: the reminder
\* tasks of the chat are cancelled and its sessions removed; with no session
\* in the chat nothing happens.
MutAckConfirmationNoCancel(c) ==
    /\ LET mine == {x \in ack.sessions : x.chat = c}
       IN  ack' = [ack EXCEPT
                !.sessions = @ \ mine,
                !.confirmed = @ \cup {x.id : x \in mine}]
    /\ UNCHANGED << today, sheets, backup, processed, pc, msgNo, leadNo, hm, rs, hist,
                    proc, ka >>

AckConfirmation(c) ==
    /\ LET mine == {x \in ack.sessions : x.chat = c}
       IN  ack' = [ack EXCEPT
                !.sessions = @ \ mine,
                !.tasks = {t \in @ : t.chat # c},
                !.confirmed = @ \cup {x.id : x \in mine}]
    /\ UNCHANGED << today, sheets, backup, processed, pc, msgNo, leadNo, hm, rs, hist,
                    proc, ka >>

NextAck ==
    \/ \E c \in AckChats : AckSessionCreated(c)
    \/ \E task \in ack.tasks : AckTimerFires(task)
    \/ \E c \in AckChats : AckConfirmation(c)

SpecAck == Init /\ [][NextAck]_vars

\* ------------------------------------------------------- start of the process
\* The state before `if __name__ == "__main__"` runs.
InitMain ==
    /\ today = 1
    /\ sheets = [t \in Tabs |-> NoTab]
    /\ backup = [d \in Days |-> NoFile]
    /\ processed = [d \in Days |-> NoFile]
    /\ pc = "main"
    /\ msgNo = 0
    /\ leadNo = 0
    /\ hm = NoMessage
    /\ rs = NoRestore
    /\ ack = NoAck
    /\ proc = NoProc
    /\ ka = NoKeepAlive
    /\ hist = [call |-> NoCall, attempted |-> {}, saved |-> {}, drained |-> {},
               passStart |-> {}, passFailed |-> {}, passCount |-> 0,
               passCorrupt |-> {}, passRows |-> 0, botLead |-> FALSE, reply |-> NoReply,
               start |-> NoStart]

\* The main block: Config() raises when a required environment variable or
\* credential key is missing, and the except clause exits with code 1.
\* Otherwise GoogleSheetsManager and LeadBot are constructed, which contacts
\* nothing (client and spreadsheet are lazy properties), and bot.run() starts
\* polling: whether the ledger can be reached plays no part (bot.py:896-917).
Main(config, ledger) ==
    /\ pc = "main"
    /\ pc' = IF config = "missing" THEN "exit_1" ELSE "idle"
    /\ hist' = [hist EXCEPT !.start = [config |-> config, ledger |-> ledger]]
    /\ UNCHANGED << today, sheets, backup, processed, msgNo, leadNo, hm, rs, ack, proc, ka >>

NextMain ==
    \/ \E config \in {"ok", "missing"}, ledger \in {"reachable", "unreachable"} :
          Main(config, ledger)
    \/ Next

SpecMain == InitMain /\ [][NextMain]_vars

\* ------------------------------------------------------ damaged backup files
\* Between two handlers a backup file is damaged from outside the program
\* (a write cut short by a killed process, a disk fault): its text is no
\* longer JSON. At most MaxCorrupt files are damaged at a time.
FileCorrupted(d) ==
    /\ pc = "idle"
    /\ JsonLoads(backup[d])
    /\ Cardinality({x \in Days : backup[x].corrupt}) < MaxCorrupt
    /\ backup' = [backup EXCEPT ![d] = CorruptFile]
    /\ UNCHANGED << today, sheets, processed, pc, msgNo, leadNo, hm, rs, hist, ack, proc, ka >>

NextCorrupt ==
    \/ Next
    \/ \E d \in Days : FileCorrupted(d)

SpecCorrupt == Init /\ [][NextCorrupt]_vars

\* ---------------------------------------------------------------- reports
\* /stats [date]: without an argument the date is today; an argument that
\* strptime rejects is answered with the format hint. Otherwise every tab of
\* UniqueTabs is counted, the backup files are counted and the reply is
\* sent; the handler is then suspended in reply_text (bot.py:209-266).
GetDailyStatsCommand(given, date, faults) ==
    /\ pc = "idle"
    /\ pc' = "st_reply"
    /\ LET target_date == IF given = "none" THEN today ELSE date
           counted == [t \in UniqueTabs |->
                          CountLeadsForDate(sheets[t], target_date, faults[t])]
           counts == [t \in UniqueTabs |-> counted[t].count]
       IN  IF given = "bad"
           THEN /\ sheets' = sheets
                /\ hist' = [hist EXCEPT !.reply = [kind |-> "bad_date"],
                                         !.botLead = FALSE]
           ELSE /\ sheets' = [t \in Tabs |->
                                 IF t \in UniqueTabs THEN counted[t].tab
                                 ELSE sheets[t]]
                /\ hist' = [hist EXCEPT !.botLead = FALSE, !.reply =
                       [kind |-> "stats", date |-> target_date, faults |-> faults,
                        counts |-> counts,
                        total_leads |-> TotalLeads(counts, UniqueTabs),
                        backup_count |-> CountBackupLeads(backup)]]
    /\ UNCHANGED << today, backup, processed, msgNo, leadNo, hm, rs, ack, proc, ka >>

\* reply_text has returned and the handler returns.
ReturnFromStats ==
    /\ pc = "st_reply"
    /\ pc' = "idle"
    /\ hist' = [hist EXCEPT !.reply = NoReply]
    /\ UNCHANGED << today, sheets, backup, processed, msgNo, leadNo, hm, rs, ack, proc, ka >>

NextReport ==
    \/ Next
    \/ \E given \in {"none", "date", "bad"}, date \in Days,
          faults \in [UniqueTabs -> ReadFaults] :
            GetDailyStatsCommand(given, date, faults)
    \/ ReturnFromStats

SpecReport == Init /\ [][NextReport]_vars

\* ------------------------------------------------- the extractor by itself
\* _extract_all_leads_info is a pure function of the text: it is called once
\* on every text of BoundedTexts.
InitExtract ==
    /\ today = 1
    /\ sheets = [t \in Tabs |-> NoTab]
    /\ backup = [d \in Days |-> NoFile]
    /\ processed = [d \in Days |-> NoFile]
    /\ pc = "ex_call"
    /\ msgNo = 0
    /\ leadNo = 0
    /\ hm \in {[NoMessage EXCEPT !.message_text = text] : text \in BoundedTexts}
    /\ rs = NoRestore
    /\ ack = NoAck
    /\ proc = NoProc
    /\ ka = NoKeepAlive
    /\ hist = [call |-> NoCall, attempted |-> {}, saved |-> {}, drained |-> {},
               passStart |-> {}, passFailed |-> {}, passCount |-> 0,
               passCorrupt |-> {}, passRows |-> 0, botLead |-> FALSE, reply |-> NoReply,
               start |-> NoStart]

\* leads_info = self._extract_all_leads_info(message_text) (bot.py:467).
ExtractCall ==
    /\ pc = "ex_call"
    /\ hm' = [hm EXCEPT !.leads_info = ExtractAllLeadsInfo(hm.message_text)]
    /\ pc' = "ex_done"
    /\ UNCHANGED << today, sheets, backup, processed, msgNo, leadNo, rs, ack, hist, proc, ka >>

NextExtract == ExtractCall

SpecExtract == InitExtract /\ [][NextExtract]_vars

\* --------------------------------------------------- debug_stats_command
\* A date argument that is no date of any row: debug_stats_command does not
\* validate its argument and counts with it as it is.
BadDate == MaxDay + 1

\* The users of user_tabs, which debug_stats_command iterates over.
Users == DOMAIN user_tabs

\* debug_stats_command up to its reply: one count_leads_for_date per user of
\* user_tabs, each added to total_leads (the counts are never negative, so
\* the sum is the one TotalLeads computes).
DebugStatsCommand(given, date, faults) ==
    /\ pc = "idle"
    /\ pc' = "st_reply"
    /\ LET target_date == IF given = "none" THEN today
                          ELSE IF given = "bad" THEN BadDate ELSE date
           counted == [u \in Users |->
                          CountLeadsForDate(sheets[user_tabs[u]], target_date, faults[u])]
           counts == [u \in Users |-> counted[u].count]
       IN  /\ sheets' = [t \in Tabs |->
                            IF \E u \in Users : user_tabs[u] = t
                            THEN counted[CHOOSE u \in Users : user_tabs[u] = t].tab
                            ELSE sheets[t]]
           /\ hist' = [hist EXCEPT !.botLead = FALSE, !.reply =
                  [kind |-> "debug", date |-> target_date, faults |-> faults,
                   counts |-> counts, total_leads |-> TotalLeads(counts, Users)]]
    /\ UNCHANGED << today, backup, processed, msgNo, leadNo, hm, rs, ack, proc, ka >>

NextDebug ==
    \/ NextReport
    \/ \E given \in {"none", "date", "bad"}, date \in Days,
          faults \in [Users -> ReadFaults] :
            DebugStatsCommand(given, date, faults)

SpecDebug == Init /\ [][NextDebug]_vars

\* ------------------------------------------------------ KeepAliveService
\* The timers the explored runs create.
MaxTimers == 3

\* The identities of the calls of ping_self: 0 is the call start() makes in
\* its caller's thread, n > 0 the call made on the thread of timer n.
PingIds == 0..MaxTimers

\* start(), up to its call of ping_self: nothing when the service runs already.
StartCall(k) ==
    IF k.running
    THEN k
    ELSE [k EXCEPT !.running = TRUE, !.caller = "start", !.stopped = FALSE,
                   !.threads = @ \cup {[id |-> 0, pc |-> "get"]}]

\* stop(), its first statement: the flag is cleared, the timer not yet cancelled.
StopCall(k) == [k EXCEPT !.running = FALSE, !.caller = "stop"]

\* A call of ping_self that ends: the one start() made returns to its caller.
PingSelfEnds(k, id) ==
    [k EXCEPT !.threads = {th \in @ : th.id # id},
              !.caller = IF id = 0 THEN "idle" ELSE @]

\* start() called by the owner of the service.
KeepAliveStart ==
    /\ ka.caller = "idle"
    /\ ka' = StartCall(ka)
    /\ UNCHANGED << today, sheets, backup, processed, pc, msgNo, leadNo, hm, rs, ack, proc,
                    hist >>

\* stop() called by the owner of the service.
KeepAliveStop ==
    /\ ka.caller = "idle"
    /\ ka' = StopCall(ka)
    /\ UNCHANGED << today, sheets, backup, processed, pc, msgNo, leadNo, hm, rs, ack, proc,
                    hist >>

\* stop(), its second statement: self.timer, when there is one, is cancelled,
\* which does nothing to a timer that fired already; then stop() returns.
KeepAliveStopCancel ==
    /\ ka.caller = "stop"
    /\ ka' = [ka EXCEPT !.timers = @ \ {ka.timer}, !.caller = "idle", !.stopped = TRUE]
    /\ UNCHANGED << today, sheets, backup, processed, pc, msgNo, leadNo, hm, rs, ack, proc,
                    hist >>

\* A pending timer fires: ping_self starts on the timer's thread.
PingTimerFires(t) ==
    /\ t \in ka.timers
    /\ ka' = [ka EXCEPT !.timers = @ \ {t},
                        !.threads = @ \cup {[id |-> t, pc |-> "get"]}]
    /\ UNCHANGED << today, sheets, backup, processed, pc, msgNo, leadNo, hm, rs, ack, proc,
                    hist >>

\* ping_self sends its request (its failure is only logged).
PingSelfGet(id) ==
    /\ [id |-> id, pc |-> "get"] \in ka.threads
    /\ ka' = [ka EXCEPT !.threads = (@ \ {[id |-> id, pc |-> "get"]})
                                        \cup {[id |-> id, pc |-> "check"]},
                        !.late = @ \/ ka.stopped]
    /\ UNCHANGED << today, sheets, backup, processed, pc, msgNo, leadNo, hm, rs, ack, proc,
                    hist >>

\* ping_self reads self.running: it goes on to schedule, or ends.
PingSelfCheck(id) ==
    /\ [id |-> id, pc |-> "check"] \in ka.threads
    /\ ka' = IF ka.running
             THEN [ka EXCEPT !.threads = (@ \ {[id |-> id, pc |-> "check"]})
                                             \cup {[id |-> id, pc |-> "schedule"]}]
             ELSE PingSelfEnds(ka, id)
    /\ UNCHANGED << today, sheets, backup, processed, pc, msgNo, leadNo, hm, rs, ack, proc,
                    hist >>

\* ping_self creates the next Timer, keeps it in self.timer and starts it.
PingSelfSchedule(id) ==
    /\ [id |-> id, pc |-> "schedule"] \in ka.threads
    /\ ka.made < MaxTimers
    /\ ka' = [PingSelfEnds(ka, id) EXCEPT !.timer = ka.made + 1,
                                          !.timers = @ \cup {ka.made + 1},
                                          !.made = @ + 1,
                                          !.late = @ \/ ka.stopped]
    /\ UNCHANGED << today, sheets, backup, processed, pc, msgNo, leadNo, hm, rs, ack, proc,
                    hist >>

\* What the timer threads and a stop() under way do.
KeepAliveSteps ==
    \/ KeepAliveStopCancel
    \/ \E t \in 1..MaxTimers : PingTimerFires(t)
    \/ \E id \in PingIds : PingSelfGet(id)
    \/ \E id \in PingIds : PingSelfCheck(id)
    \/ \E id \in PingIds : PingSelfSchedule(id)

NextKeepAlive ==
    \/ KeepAliveStart
    \/ KeepAliveStop
    \/ KeepAliveSteps

SpecKeepAlive == Init /\ [][NextKeepAlive]_vars

\* ------------------------------------------------------------------ run()
\* max_retries of run().
MaxRunRetries == 3

\* The start attempts the explored runs make.
MaxAttempts == 4

\* The ways run_polling ends.
PollingEndings == {"returns", "Conflict", "NetworkError", "Exception"}

\* run() up to its call of keep_alive.start(): a second instance returns at
\* once, the first sets INSTANCE_RUNNING and starts the Flask thread.
RunEnter ==
    /\ proc.pc = "run_entry"
    /\ IF proc.instance_running
       THEN /\ proc' = [proc EXCEPT !.pc = "returned"]
            /\ ka' = ka
       ELSE /\ proc' = [proc EXCEPT !.instance_running = TRUE, !.pc = "ka_start"]
            /\ ka' = StartCall(ka)
    /\ UNCHANGED << today, sheets, backup, processed, pc, msgNo, leadNo, hm, rs, ack, hist >>

\* keep_alive.start() returned: the signal handlers are set, retry_count = 0.
RunStarted ==
    /\ proc.pc = "ka_start"
    /\ ka.caller = "idle"
    /\ proc' = [proc EXCEPT !.retry_count = 0, !.pc = "loop"]
    /\ UNCHANGED << today, sheets, backup, processed, pc, msgNo, leadNo, hm, rs, ack, ka,
                    hist >>

\* The test of the while loop.
RunLoopTest ==
    /\ proc.pc = "loop"
    /\ IF proc.retry_count < MaxRunRetries /\ ~proc.shutdown_event
       THEN /\ proc.attempts < MaxAttempts
            /\ proc' = [proc EXCEPT !.pc = "build", !.attempts = @ + 1]
       ELSE proc' = [proc EXCEPT !.pc = "shutdown"]
    /\ UNCHANGED << today, sheets, backup, processed, pc, msgNo, leadNo, hm, rs, ack, ka,
                    hist >>

\* An except clause of the loop: Conflict and NetworkError/TimedOut sleep,
\* any other exception sleeps or, at max_retries, breaks.
RunFails(p, kind) ==
    LET n == p.retry_count + 1
    IN  [p EXCEPT !.retry_count = n,
                  !.failed = @ + 1,
                  !.pc = IF kind = "Exception" /\ n >= MaxRunRetries
                         THEN "shutdown"
                         ELSE "sleep"]

\* The body of the try up to run_polling: the application is built and the
\* handlers set, retry_count is reset, polling starts; or the build raises.
RunBuild(outcome) ==
    /\ proc.pc = "build"
    /\ proc' = IF outcome = "ok"
               THEN [proc EXCEPT !.retry_count = 0, !.pc = "polling"]
               ELSE RunFails(proc, "Exception")
    /\ UNCHANGED << today, sheets, backup, processed, pc, msgNo, leadNo, hm, rs, ack, ka,
                    hist >>

\* run_polling ends: it returns (a stop signal reached it) or raises.
RunPollingEnds(how) ==
    /\ proc.pc = "polling"
    /\ proc' = IF how = "returns"
               THEN [proc EXCEPT !.pc = "loop", !.failed = 0]
               ELSE RunFails(proc, how)
    /\ UNCHANGED << today, sheets, backup, processed, pc, msgNo, leadNo, hm, rs, ack, ka,
                    hist >>

\* time.sleep(wait_time) returns.
RunSleepEnds ==
    /\ proc.pc = "sleep"
    /\ proc' = [proc EXCEPT !.pc = "loop"]
    /\ UNCHANGED << today, sheets, backup, processed, pc, msgNo, leadNo, hm, rs, ack, ka,
                    hist >>

\* graceful_shutdown up to the first statement of keep_alive.stop().
GracefulShutdown ==
    /\ proc.pc = "shutdown"
    /\ proc' = [proc EXCEPT !.instance_running = FALSE, !.shutdown_event = TRUE,
                            !.pc = "ka_stop"]
    /\ ka' = StopCall(ka)
    /\ UNCHANGED << today, sheets, backup, processed, pc, msgNo, leadNo, hm, rs, ack, hist >>

\* keep_alive.stop() returned: run() clears INSTANCE_RUNNING and returns.
RunReturns ==
    /\ proc.pc = "ka_stop"
    /\ ka.caller = "idle"
    /\ proc' = [proc EXCEPT !.instance_running = FALSE, !.pc = "returned"]
    /\ UNCHANGED << today, sheets, backup, processed, pc, msgNo, leadNo, hm, rs, ack, ka,
                    hist >>

\* POST /shutdown on the Flask thread: it sets SHUTDOWN_EVENT and no more.
ShutdownEndpoint ==
    /\ proc.pc \notin {"run_entry", "returned"}
    /\ proc' = [proc EXCEPT !.shutdown_event = TRUE]
    /\ UNCHANGED << today, sheets, backup, processed, pc, msgNo, leadNo, hm, rs, ack, ka,
                    hist >>

\* The steps run() takes by itself; the end of run_polling is not one.
RunSteps ==
    \/ RunEnter
    \/ RunStarted
    \/ RunLoopTest
    \/ \E outcome \in {"ok", "Exception"} : RunBuild(outcome)
    \/ RunSleepEnds
    \/ GracefulShutdown
    \/ RunReturns

NextRun ==
    \/ RunSteps
    \/ \E how \in PollingEndings : RunPollingEnds(how)
    \/ ShutdownEndpoint
    \/ KeepAliveSteps

SpecRun == Init /\ [][NextRun]_vars

\* ------------------------------------------------------------- properties
\* The rows of a tab, and whether a payload is one of them.
Rows(t) == sheets[t].rows

InLedger(worksheet_name, data) ==
    \E k \in 1..Len(Rows(worksheet_name)) : Rows(worksheet_name)[k] = data

\* The drain has gone through every file and is about to return.
RestoreEnds == pc = "rs_open" /\ rs.backup_files = {}

\* Lead k of the message being handled, as the payload `row` carries it.
IsLeadOfMessage(row, k) ==
    /\ row.kind = "lead"
    /\ row.lead = <<msgNo, k>>
    /\ row.text = hm.message_text
    /\ row.link = hm.leads_info[k][2]
    /\ row.user = hm.leads_info[k][1]
    /\ row.sender = hm.sender

LeadDelivered(k) ==
    LET t == TabFor(hm.leads_info[k][1])
    IN  \E n \in 1..Len(Rows(t)) : IsLeadOfMessage(Rows(t)[n], k)

LeadInBackup(k) ==
    \E e \in Held(backup) :
        e.worksheet = TabFor(hm.leads_info[k][1]) /\ IsLeadOfMessage(e.data, k)

\* C1: a call of _add_lead_with_retry with the default max_retries whose
\* every append failed has made exactly 3 attempts when it returns, returns
\* False, and has slept 1 and then 2 time units between the attempts.
C1_RetryBound ==
    LET c == hist.call
    IN  (pc = "hm_returned" /\ \A k \in 1..Len(c.outcomes) : ~c.outcomes[k])
            => /\ Len(c.outcomes) = 3
               /\ c.result = "False"
               /\ c.delays = <<1, 2>>

C1_Witness ==
    pc = "hm_returned" /\ hist.call.result = "False" /\ Len(hist.call.outcomes) = 3

\* C2: when the loop of handle_message is over, every lead extracted from
\* the message is a row of its tab or an entry of an unprocessed backup file.
C2_NoLeadDropped ==
    pc = "hm_exit" =>
        \A k \in 1..Len(hm.leads_info) : LeadDelivered(k) \/ LeadInBackup(k)

C2_Witness ==
    /\ pc = "hm_exit"
    /\ Len(hm.leads_info) = 2
    /\ LeadInBackup(1) /\ ~LeadDelivered(1)
    /\ LeadDelivered(2) /\ ~LeadInBackup(2)

\* The places of the unprocessed backup files that hold the payload `data`.
PlacesOf(files, data) ==
    {<<d, k>> \in Days \X (1..MaxLeads) :
        /\ files[d].exists
        /\ k <= Len(files[d].data)
        /\ files[d].data[k].data = data}

\* C3: the step that follows a call which returned False (all 3 attempts
\* failed) leaves exactly one backup entry for the lead, with the lead's tab
\* and its payload, and the backup count one above the count at the start of
\* the lead's iteration.
C3_OneOverflowEntry ==
    [][(pc = "hm_returned" /\ hist.call.result = "False") =>
        /\ CountBackupLeads(backup') = hist.call.countBefore + 1
        /\ Cardinality(PlacesOf(backup', hm.lead_data)) = 1
        /\ \A p \in PlacesOf(backup', hm.lead_data) :
              backup'[p[1]].data[p[2]].worksheet = WorksheetName(hm)]_vars

C3_Witness ==
    /\ pc = "hm_exit"
    /\ Cardinality(PlacesOf(backup, hm.lead_data)) = 1
    /\ CountBackupLeads(backup) = 2

\* C4: when a drain in which every append succeeded is about to return,
\* every entry the backup files held when it started is a row of its tab and
\* is in no unprocessed file; the backup count was the number of those
\* entries and is now 0.
C4_RoundTrip ==
    (RestoreEnds /\ hist.passFailed = {}) =>
        /\ \A e \in hist.passStart :
              InLedger(e.worksheet, e.data) /\ e \notin Held(backup)
        /\ hist.passCount = Cardinality(hist.passStart)
        /\ CountBackupLeads(backup) = 0

C4_Witness ==
    /\ RestoreEnds
    /\ hist.passFailed = {}
    /\ Cardinality(hist.passStart) = 2
    /\ rs.total_restored = 2

\* C5 (as claimed): when a drain is about to return, every entry whose
\* replay failed in this pass is still in an unprocessed backup file.
C5_FailedEntriesKept == RestoreEnds => hist.passFailed \subseteq Held(backup)

\* C6 (as claimed): every entry that a drain took out of the unprocessed
\* files is in a processed_ file.
C6_ProcessedKept ==
    \A e \in hist.drained : \E d \in Days : e \in Entries(processed[d])

C8_HeaderOnce ==
    pc = "idle" =>
        \A t \in Tabs : sheets[t].exists =>
            /\ Rows(t) # << >>
            /\ Rows(t)[1] = HeaderRow
            /\ \A k \in 2..Len(Rows(t)) : Rows(t)[k] # HeaderRow

\* Lead a was extracted before lead b.
Earlier(a, b) == a[1] < b[1] \/ (a[1] = b[1] /\ a[2] < b[2])

\* The leads that went through a backup file.
Overflowed == {e.data.lead : e \in hist.saved}

\* C9 (as claimed): in every tab the rows of leads stand in the order in
\* which the leads were extracted.
C9_LedgerOrder ==
    \A t \in Tabs : \A a, b \in 1..Len(Rows(t)) :
        (a < b /\ Rows(t)[a].kind = "lead" /\ Rows(t)[b].kind = "lead")
            => Earlier(Rows(t)[a].lead, Rows(t)[b].lead)

\* C9 (amended): in every tab the rows that handle_message itself appended
\* (leads that never went through a backup file) stand in the order in which
\* the leads were extracted.
C9_DirectOrder ==
    \A t \in Tabs : \A a, b \in 1..Len(Rows(t)) :
        (/\ a < b
         /\ Rows(t)[a].kind = "lead" /\ Rows(t)[b].kind = "lead"
         /\ Rows(t)[a].lead \notin Overflowed
         /\ Rows(t)[b].lead \notin Overflowed)
            => Earlier(Rows(t)[a].lead, Rows(t)[b].lead)

C9_Witness ==
    \E t \in Tabs : \E a, b \in 1..Len(Rows(t)) :
        /\ a < b
        /\ Rows(t)[a].kind = "lead" /\ Rows(t)[b].kind = "lead"
        /\ Rows(t)[a].lead \notin Overflowed
        /\ Rows(t)[b].lead \notin Overflowed

\* C10: when the loop of handle_message is over, an append was attempted for
\* every lead of the message, whatever became of the leads before it, and
\* the handler returns to the Application, which can dispatch again.
C10_EveryLeadAttempted ==
    pc = "hm_exit" =>
        /\ hist.attempted = 1..Len(hm.leads_info)
        /\ ENABLED ReturnFromMessage

C10_Witness ==
    /\ pc = "hm_exit"
    /\ Len(hm.leads_info) = 2
    /\ LeadInBackup(1)
    /\ 2 \in hist.attempted

\* The handler has returned to the Application: its frame is gone.
HandlerReturned == hm = NoMessage

\* C11 (as claimed): handle_message has returned to the transport whenever
\* an append attempt or a backoff sleep of one of its leads is under way; it
\* waits for none of them.
C11_NonBlocking == pc \in {"hm_try", "hm_sleep"} => HandlerReturned

\* The positions of the @handle tokens and of the marker URLs of a text.
HandlesIn(text) == {k \in 1..Len(text) : text[k].kind = "at"}

MarkersIn(text) == {k \in 1..Len(text) : text[k].kind = "amo_url"}

\* C12 (as claimed): for a text with H >= 1 @handles and R >= 1 marker URLs
\* _extract_all_leads_info returns exactly H x R pairs, one for each handle
\* with each marker URL.
C12_PairingLaw ==
    LET text == hm.message_text
        H == Cardinality(HandlesIn(text))
        R == Cardinality(MarkersIn(text))
    IN  (pc = "ex_done" /\ H >= 1 /\ R >= 1) =>
            /\ Len(hm.leads_info) = H * R
            /\ \A h \in HandlesIn(text), r \in MarkersIn(text) :
                  \E k \in 1..Len(hm.leads_info) :
                      hm.leads_info[k] = << Lower(text[h].val), text[r].val >>

\* C13: for a text without a marker URL _extract_all_leads_info returns the
\* empty list, however many @handles the text has.
C13_NoReferenceGuard ==
    (pc = "ex_done" /\ MarkersIn(hm.message_text) = {}) => hm.leads_info = << >>

C13_Witness ==
    /\ pc = "ex_done"
    /\ MarkersIn(hm.message_text) = {}
    /\ Cardinality(HandlesIn(hm.message_text)) = 2
    /\ \E k \in 1..Len(hm.message_text) : hm.message_text[k].kind = "url"
    /\ hm.leads_info = << >>

\* C14: a call of handle_message with a text that has no marker URL, or has
\* one but no @handle, returns at once: no append is attempted, no tab and no
\* backup file changes and no reply is sent.
C14_NoLeadNoEffect ==
    [][\A text \in Texts, sender \in Senders :
          (/\ HandleMessage(text, sender)
           /\ (MarkersIn(text) = {} \/ HandlesIn(text) = {}))
              => /\ pc' = "idle"
                 /\ sheets' = sheets
                 /\ backup' = backup
                 /\ processed' = processed
                 /\ hist'.reply = hist.reply
                 /\ hist'.attempted = hist.attempted]_vars

C14_Witness ==
    /\ pc = "idle"
    /\ msgNo = 2
    /\ leadNo = 0
    /\ \A t \in Tabs : sheets[t] = NoTab
    /\ \A d \in Days : backup[d] = NoFile

\* Two handles that are equal up to letter case.
SameButCase(a, b) == a = b \/ {a, b} = {"Bob_7007", "bob_7007"}

\* The bucket the claim gives a handle: that of the configured handle equal
\* to it up to case, the default bucket when there is none.
BucketOf(handle) ==
    LET known == {u \in DOMAIN user_tabs : SameButCase(handle, u)}
    IN  IF known # {} THEN user_tabs[CHOOSE u \in known : TRUE] ELSE "All"

\* The handle of a lead's payload as the message text spells it.
HandleOf(data) ==
    SelectSeq(data.text, LAMBDA t : t.kind = "at")[data.lead[2]].val

\* C15: every lead row is in, and every backup entry names, the bucket that
\* user_tabs gives the lead's handle compared without regard to case, "All"
\* when the handle is not configured.
C15_BucketResolution ==
    /\ \A t \in Tabs : \A k \in 1..Len(Rows(t)) :
          Rows(t)[k].kind = "lead" => t = BucketOf(HandleOf(Rows(t)[k]))
    /\ \A d \in Days : \A e \in Entries(backup[d]) :
          e.worksheet = BucketOf(HandleOf(e.data))

C15_Witness ==
    /\ \E k \in 1..Len(Rows("Jizzakh")) :
          /\ Rows("Jizzakh")[k].kind = "lead"
          /\ HandleOf(Rows("Jizzakh")[k]) = "Bob_7007"
    /\ \E e \in Held(backup) :
          e.worksheet = "All" /\ HandleOf(e.data) = "stranger"

\* The lead rows of a tab whose date is `date`.
LeadRowsOn(t, date) ==
    Cardinality({k \in 1..Len(Rows(t)) :
                    Rows(t)[k].kind = "lead" /\ Rows(t)[k].date = date})

\* C16 (as claimed): when /stats has counted without a read failure, the
\* count of every tab is the number of its lead rows of the date.
C16_CountIsLeadRows ==
    (/\ pc = "st_reply"
     /\ hist.reply.kind = "stats"
     /\ \A t \in UniqueTabs : hist.reply.faults[t] = "none")
        => \A t \in UniqueTabs :
              hist.reply.counts[t] = LeadRowsOn(t, hist.reply.date)

\* C17: /stats leaves every tab, every backup file and every processed file
\* as it was, and its count of a tab that does not exist is 0.
C17_ReportReadOnly ==
    [][(pc = "idle" /\ pc' = "st_reply") =>
          /\ sheets' = sheets
          /\ backup' = backup
          /\ processed' = processed
          /\ hist'.reply.kind = "stats" =>
                \A t \in UniqueTabs :
                    ~sheets[t].exists => hist'.reply.counts[t] = 0]_vars

C17_Witness ==
    /\ pc = "st_reply"
    /\ hist.reply.kind = "stats"
    /\ \E t \in UniqueTabs : ~sheets[t].exists
    /\ hist.reply.total_leads = 1
    /\ hist.reply.backup_count = 1

\* C18: while a drain runs, every backup file that was corrupt when it began
\* is still there, unchanged, and no processed file was made of it; the
\* drain can always go on to its next step; the count taken when it began
\* is the number of entries of the other files, and when it is about to
\* return each of those entries was replayed: it failed or is a row.
C18_CorruptSkipped ==
    pc \in {"rs_open", "rs_try"} =>
        /\ \A d \in hist.passCorrupt :
              backup[d] = CorruptFile /\ ~processed[d].corrupt
        /\ ENABLED (\/ \E d \in Days : RestoreOpen(d)
                    \/ \E fault \in Faults : RestoreTry(fault)
                    \/ ReturnFromRestore)
        /\ hist.passCount = Cardinality(hist.passStart)
        /\ RestoreEnds =>
              \A e \in hist.passStart :
                  e \in hist.passFailed \/ InLedger(e.worksheet, e.data)

C18_Witness ==
    /\ RestoreEnds
    /\ hist.passCorrupt # {}
    /\ \A d \in hist.passCorrupt : backup[d] = CorruptFile
    /\ hist.passStart # {}
    /\ rs.total_restored = 1

\* C20 (as claimed): a process that started without its required
\* configuration, or while the ledger could not be reached, has exited with
\* code 1 and has handled no message, appended nothing and saved nothing.
C20_StartupFailureExits ==
    (hist.start.config = "missing" \/ hist.start.ledger = "unreachable") =>
        /\ pc = "exit_1"
        /\ msgNo = 0
        /\ \A t \in Tabs : sheets[t] = NoTab
        /\ \A d \in Days : backup[d] = NoFile

\* C19: a session whose task has not fired yet is pending; a session that a
\* confirmation removed is gone and has no reminder task left, and no
\* reminder was sent for it after the confirmation.
C19_AckLifecycle ==
    /\ \A x \in ack.sessions :
          [id |-> x.id, chat |-> x.chat, stage |-> 1] \in ack.tasks
              => x.state = "pending"
    /\ \A id \in ack.confirmed :
          /\ \A x \in ack.sessions : x.id # id
          /\ \A t \in ack.tasks : t.id # id
    /\ ack.late = {}

C19_Witness ==
    /\ \E id \in ack.confirmed : \E x \in ack.sessions : x.chat = 1 /\ x.id > id
    /\ \E x \in ack.sessions : x.state = "reminded_2"

\* The rows of a tab that are the payload `data`.
RowsEqual(t, data) == {n \in 1..Len(Rows(t)) : Rows(t)[n] = data}

\* C21: a call of _add_lead_with_retry that returned True made its last
\* attempt the only successful one, and the tab holds the lead's payload in
\* exactly one row, whichever attempt it was.
C21_StopsAtFirstSuccess ==
    LET c == hist.call
        n == Len(c.outcomes)
    IN  (pc = "hm_returned" /\ c.result = "True") =>
            /\ n >= 1 /\ n <= c.max_retries
            /\ c.outcomes[n]
            /\ \A k \in 1..(n - 1) : ~c.outcomes[k]
            /\ Cardinality(RowsEqual(WorksheetName(hm), hm.lead_data)) = 1

C21_Witness ==
    /\ pc = "hm_returned"
    /\ hist.call.result = "True"
    /\ hist.call.outcomes = << FALSE, TRUE >>
    /\ Cardinality(RowsEqual(WorksheetName(hm), hm.lead_data)) = 1

\* C22: the step in which _save_to_backup runs leaves in today's file every
\* entry the file held, at the same place, followed by the new entry alone,
\* and changes no other backup file and no processed file.
C22_SaveOnlyAppends ==
    [][(pc = "hm_returned" /\ hist.call.result = "False") =>
          LET old == backup[today].data
              new == backup'[today].data
          IN  /\ Len(new) = Len(old) + 1
              /\ \A k \in 1..Len(old) : new[k] = old[k]
              /\ new[Len(new)] = BackupEntry(today, WorksheetName(hm), hm.lead_data)
              /\ \A d \in Days \ {today} : backup'[d] = backup[d]
              /\ processed' = processed]_vars

C22_Witness ==
    /\ pc \in {"hm_try", "hm_exit"}
    /\ Len(backup[today].data) = 2
    /\ backup[today].data[2] \in hist.saved
    /\ backup[today].data[1] \in hist.saved

\* C23: when a drain is about to return, the entries the readable backup
\* files held when it began were each replayed once: restored + failed is
\* their number, the failed ones are total_failed distinct entries, every
\* other one is a row, and total_restored data rows were added to the tabs.
C23_OneAttemptEach ==
    RestoreEnds =>
        /\ rs.total_restored + rs.total_failed = Cardinality(hist.passStart)
        /\ hist.passCount = Cardinality(hist.passStart)
        /\ hist.passFailed \subseteq hist.passStart
        /\ Cardinality(hist.passFailed) = rs.total_failed
        /\ \A e \in hist.passStart \ hist.passFailed : InLedger(e.worksheet, e.data)
        /\ LeadRowCount(sheets, Tabs) = hist.passRows + rs.total_restored

C23_Witness ==
    /\ RestoreEnds
    /\ rs.total_restored = 1
    /\ rs.total_failed = 1
    /\ hist.passRows = 0


\* C24: when every start attempt fails, run() makes at most max_retries
\* attempts in a row before it leaves its loop: the failed attempts that
\* follow each other never number more than max_retries.
C24_RestartBounded == proc.failed <= MaxRunRetries

\* C25: once SHUTDOWN_EVENT is set, run() starts no polling attempt: no step
\* taken with the event set brings run() into run_polling.
C25_NoPollingAfterShutdown ==
    [][(proc.shutdown_event /\ proc.pc # "polling") => proc'.pc # "polling"]_vars


\* C29: the keep-alive service has at most one timer pending, and between the
\* return of stop() and the next start() it schedules no timer and sends no
\* ping.
C29_OneTimerNoneAfterStop == Cardinality(ka.timers) <= 1 /\ ~ka.late


\* The sum, over the distinct configured buckets, of the lead rows each holds
\* for a date: every bucket counted once.
BucketSum(date) ==
    TotalLeads([t \in UniqueTabs |-> CountLeadsForDate(sheets[t], date, "none").count],
               UniqueTabs)

\* C26: the totals of the two reporting commands agree: whichever command
\* replies, with every count read without error, its total is the sum over
\* the distinct configured buckets, each bucket counted once.
C26_ReportsAgree ==
    (/\ pc = "st_reply"
     /\ hist.reply.kind \in {"stats", "debug"}
     /\ \A x \in DOMAIN hist.reply.faults : hist.reply.faults[x] = "none")
        => hist.reply.total_leads = BucketSum(hist.reply.date)


\* C27: when a drain ends with at least one failed re-delivery, the reply of
\* /restore reports the number that failed, and it never says there are no
\* leads to restore while entries remain unprocessed.
C27_FailuresReported ==
    pc = "rc_reply" =>
        /\ hist.passFailed # {} =>
               /\ hist.reply.kind = "restored"
               /\ hist.reply.failed = Cardinality(hist.passFailed)
        /\ hist.reply.kind = "nothing" => Held(backup) = {}


\* C28: a message whose sender is the notifications bot never produces a
\* lead, whatever its text: the handler returns at once, with no append to
\* the ledger and no entry written to the overflow store.
C28_BotMessagesIgnored ==
    [][\A text \in Texts :
          HandleMessage(text, NotificationsBot)
              => /\ pc' = "idle"
                 /\ hm' = NoMessage
                 /\ leadNo' = leadNo
                 /\ sheets' = sheets
                 /\ backup' = backup
                 /\ processed' = processed
                 /\ hist'.call = hist.call
                 /\ hist'.attempted = hist.attempted
                 /\ hist'.saved = hist.saved]_vars

C28_Witness ==
    /\ hist.botLead
    /\ pc = "idle"
    /\ msgNo = 1
    /\ leadNo = 0
    /\ \A t \in Tabs : sheets[t] = NoTab
    /\ \A d \in Days : backup[d] = NoFile

=============================================================================
